---- MODULE Spec2Model ----
(***************************************************************************)
(* Model of the two documentation scripts of xc-mcp:                       *)
(*   scripts/extract-tool-docs.py  (registry -> sidecar .md documents)     *)
(*   scripts/add-jsdoc.py          (sidecar .md -> JSDoc block in .ts)     *)
(*                                                                         *)
(* Three specifications share the variables:                               *)
(*   SpecExtract  runs of extract-tool-docs.py main()                      *)
(*   SpecInject   runs of add-jsdoc.py main()                              *)
(*   SpecFormat   calls of format_markdown on bounded descriptions         *)
(*                                                                         *)
(* Text is modelled structurally.  A tool identifier is the sequence of    *)
(* its dash-delimited tokens; a description is a sequence of lines, each   *)
(* line a record of what the code inspects (leading whitespace, what the   *)
(* stripped line starts with, which keyword it contains) plus "n", its     *)
(* position, standing for the rest of its text.  A .ts file is a sequence  *)
(* of chunks with character widths.                                        *)
(***************************************************************************)
EXTENDS Integers, Sequences, FiniteSets, TLC

VARIABLES
    \* ---- extract-tool-docs.py ----
    indexExists,        \* os.path.exists('src/index.ts')
    registry,           \* registerTool() statements of src/index.ts, in order
    unwritable,         \* category directories in which open(path, 'w') raises
    fs,                 \* sidecar files: path -> document
    fs0,                \* fs when the current run of main() began
    x_pc,               \* "idle", "loop", "exited", "crashed"
    x_run,              \* number of runs of main() started
    x_history,          \* how each earlier run ended: "tally", "abort", "crash"
    tools,              \* main(): tools
    pending,            \* main(): tools the nested loops have still to visit
    generated_count,    \* main(): generated_count
    printed,            \* lines printed by the current run
    exitStatus,         \* exit status of the last finished run (-1: none yet)
    \* ---- add-jsdoc.py ----
    srcFiles,           \* .ts files: file index -> content (chunks)
    src0,               \* srcFiles when the current run of main() began
    perm,               \* file index -> "ok", "unreadable", "readonly"
    mdFiles,            \* existing sidecar documents (as [cat, name])
    mdDenied,           \* sidecar documents that exist but cannot be opened
    j_pc,               \* "idle", "loop", "exited", "crashed"
    j_run,              \* number of runs of main() started
    j_pending,          \* main(): .ts files still to visit
    total_count,        \* main(): total_count
    success_count,      \* main(): success_count
    j_log,              \* what the current run did per file
    j_exit,             \* exit status of the last finished run (-1: none yet)
    \* ---- format_markdown ----
    f_pc,               \* "idle", "call", "returned"
    f_name,             \* argument tool_name
    f_description,      \* argument description (lines)
    f_md                \* returned document

extractVars == <<indexExists, registry, unwritable, fs, fs0, x_pc, x_run,
                 x_history, tools, pending, generated_count, printed, exitStatus>>
injectVars == <<srcFiles, src0, perm, mdFiles, mdDenied, j_pc, j_run, j_pending,
                total_count, success_count, j_log, j_exit>>
formatVars == <<f_pc, f_name, f_description, f_md>>
vars == <<extractVars, injectVars, formatVars>>

\* ------------------------------------------------------------------ bounds
MaxTools == 3
MaxRuns == 2
MaxFiles == 3
MaxSummaryLen == 6
MaxAdvLen == 4

\* ------------------------------------------------------- program constants
SummaryCap == 5
AdvantagesCap == 5
PrefixLen == 500

Min(a, b) == IF a < b THEN a ELSE b

RECURSIVE Join(_, _)
\* '-'.join(tokens) and the like: the text of a token sequence
Join(tokens, sep) ==
    IF tokens = <<>> THEN ""
    ELSE IF Len(tokens) = 1 THEN tokens[1]
    ELSE tokens[1] \o sep \o Join(Tail(tokens), sep)

\* ============================================================ extractor ==

\* get_tool_category: the dict of known categories and their prefixes
CategoryPrefixes ==
    [xcodebuild |-> {"xcodebuild"}, simctl |-> {"simctl"}, idb |-> {"idb"},
     cache |-> {"cache"}, persistence |-> {"persistence"}]

\* tool_name is the token sequence tool_name.split('-')
get_tool_category(tool_name) ==
    LET parts == tool_name
        hits == {c \in DOMAIN CategoryPrefixes : parts[1] \in CategoryPrefixes[c]}
    IN  IF hits # {} THEN CHOOSE c \in hits : TRUE ELSE "unknown"

\* tool_name.split('-', 1): two parts iff there is a dash
get_tool_filename(tool_name) ==
    IF Len(tool_name) >= 2 THEN Tail(tool_name) ELSE tool_name

\* md_path = f'{category_dir}/{tool_filename}.md'
MdPath(tool_name) ==
    "src/tools/" \o get_tool_category(tool_name) \o "/"
        \o Join(get_tool_filename(tool_name), "-") \o ".md"

\* ---- lines of a description
strip(line) == [line EXCEPT !.ind = FALSE]
HasKeyword(line) == line.kw \in {"Advantages", "Benefits", "Features"}
IsBullet(stripped) == stripped.start \in {"bullet", "dash"}
IsHeading(stripped) == stripped.start \in {"h3", "h2"}
IsBlank(line) == strip(line).start = "empty"

\* one iteration of the for loop over lines
ScanStep(st, line) ==
    LET stripped == strip(line) IN
    IF HasKeyword(line) THEN [st EXCEPT !.in_advantages = TRUE]
    ELSE IF st.in_advantages THEN
        IF IsBullet(stripped)
            THEN [st EXCEPT !.advantages = Append(@, stripped)]
        ELSE IF IsHeading(stripped)
            THEN [st EXCEPT !.in_advantages = FALSE,
                            !.summary_lines = Append(@, line)]
        ELSE IF stripped.start = "empty" THEN st
        ELSE [st EXCEPT !.in_advantages = FALSE,
                        !.summary_lines = Append(@, line)]
    ELSE [st EXCEPT !.summary_lines = Append(@, line)]

RECURSIVE ScanLines(_, _)
ScanLines(st, lines) ==
    IF lines = <<>> THEN st
    ELSE ScanLines(ScanStep(st, Head(lines)), Tail(lines))

\* the loop's result: advantages, summary_lines
SplitDescription(description) ==
    ScanLines([advantages |-> <<>>, summary_lines |-> <<>>,
               in_advantages |-> FALSE], description)

\* variant: blank lines are dropped before the cap is applied
EmitSummaryFilterFirst(summary_lines) ==
    LET kept == SelectSeq(summary_lines, LAMBDA l : ~IsBlank(l))
    IN  SubSeq(kept, 1, Min(SummaryCap, Len(kept)))

\* summary_lines[:5], blank ones not written
EmitSummary(summary_lines) ==
    SelectSeq(SubSeq(summary_lines, 1, Min(SummaryCap, Len(summary_lines))),
              LAMBDA l : ~IsBlank(l))

\* advantages[:5]
EmitAdvantages(advantages) ==
    SubSeq(advantages, 1, Min(AdvantagesCap, Len(advantages)))

\* The document: its heading, the summary lines written, the bullets written
\* under "## Advantages" (the section is omitted when there are none) and the
\* name in "## Notes"; the scaffold between them is fixed text.
format_markdown(tool_name, description) ==
    LET st == SplitDescription(description) IN
    [title |-> Join(tool_name, "-"),
     summary |-> EmitSummary(st.summary_lines),
     advantages |-> EmitAdvantages(st.advantages),
     notes |-> Join(tool_name, "_")]

\* ---- inputs of the extractor
ToolIds ==
    {<<"cache", "clear">>, <<"cache">>, <<"cache", "cache">>,
     <<"foo", "x">>, <<"bar", "x">>}

Line(start, kw, n) == [ind |-> FALSE, start |-> start, kw |-> kw, n |-> n]

\* the description text registered for a tool in src/index.ts
RegisteredDescription(tool_name) ==
    IF Len(tool_name) >= 2
        THEN <<Line("text", "", 1), Line("h2", "Advantages", 2), Line("dash", "", 3)>>
        ELSE <<Line("text", "", 1)>>

Statement(tool_name) ==
    [name |-> tool_name, description |-> RegisteredDescription(tool_name)]

RECURSIVE SeqsUpTo(_, _)
\* all sequences over S of length at most n
SeqsUpTo(S, n) ==
    IF n = 0 THEN {<<>>}
    ELSE LET shorter == SeqsUpTo(S, n - 1)
         IN  shorter \cup {Append(s, e) : s \in {t \in shorter : Len(t) = n - 1}, e \in S}

Registries == SeqsUpTo({Statement(t) : t \in ToolIds}, MaxTools)

SidecarPaths == {MdPath(t) : t \in ToolIds}

\* a sidecar document that was not written by this script
ManualDoc == [title |-> "hand-written", summary |-> <<>>, advantages |-> <<>>,
              notes |-> ""]

\* parse_index_ts: one (tool_name, description) per registerTool() match
parse_index_ts(content) ==
    [i \in DOMAIN content |-> <<content[i].name, content[i].description>>]

\* for category in sorted(by_category.keys()): for ... in by_category[category]
SortedCategories == <<"cache", "idb", "persistence", "simctl", "unknown", "xcodebuild">>

RECURSIVE GroupedOrder(_, _)
GroupedOrder(ts, cats) ==
    IF cats = <<>> THEN <<>>
    ELSE SelectSeq(ts, LAMBDA t : get_tool_category(t[1]) = Head(cats))
            \o GroupedOrder(ts, Tail(cats))

ProcessingOrder(ts) == GroupedOrder(ts, SortedCategories)

\* variant: the existence test never succeeds (every sidecar is rewritten)
PathExistsNever(fsys, md_path) == FALSE

\* os.path.exists(md_path)
PathExists(fsys, md_path) == md_path \in DOMAIN fsys

\* variant: the document is written under another directory than the one tested
WriteFileElsewhere(fsys, md_path, markdown) ==
    [p \in DOMAIN fsys \cup {"docs/" \o md_path} |->
        IF p = "docs/" \o md_path THEN markdown ELSE fsys[p]]

\* with open(md_path, 'w') as f: f.write(markdown)
WriteFile(fsys, md_path, markdown) ==
    [p \in DOMAIN fsys \cup {md_path} |-> IF p = md_path THEN markdown ELSE fsys[p]]

Report(kind, tool_name) == [kind |-> kind, tool |-> Join(tool_name, "-")]

InjectIdle ==
    /\ srcFiles = <<>> /\ src0 = <<>> /\ perm = <<>>
    /\ mdFiles = {} /\ mdDenied = {}
    /\ j_pc = "idle" /\ j_run = 0 /\ j_pending = <<>>
    /\ total_count = 0 /\ success_count = 0 /\ j_log = <<>> /\ j_exit = -1

FormatIdle ==
    /\ f_pc = "idle" /\ f_name = <<>> /\ f_description = <<>>
    /\ f_md = ManualDoc

ExtractIdle ==
    /\ indexExists = FALSE /\ registry = <<>> /\ unwritable = {}
    /\ fs = <<>> /\ fs0 = <<>>
    /\ x_pc = "idle" /\ x_run = 0 /\ x_history = <<>>
    /\ tools = <<>> /\ pending = <<>> /\ generated_count = 0
    /\ printed = <<>> /\ exitStatus = -1

InitExtract ==
    /\ indexExists \in BOOLEAN
    /\ registry \in IF indexExists THEN Registries ELSE {<<>>}
    /\ unwritable \in {{}, {"unknown"}}
    /\ \E present \in SUBSET SidecarPaths : fs = [p \in present |-> ManualDoc]
    /\ fs0 = fs
    /\ x_pc = "idle" /\ x_run = 0 /\ x_history = <<>>
    /\ tools = <<>> /\ pending = <<>> /\ generated_count = 0
    /\ printed = <<>> /\ exitStatus = -1
    /\ InjectIdle /\ FormatIdle

\* main() is started (again) once no run is in progress
ExtractCanStart == x_pc \in {"idle", "exited", "crashed"} /\ x_run < MaxRuns

LastOutcome ==
    IF x_pc = "idle" THEN <<>>
    ELSE IF x_pc = "crashed" THEN <<"crash">>
    ELSE IF printed # <<>> /\ printed[Len(printed)].kind = "tally" THEN <<"tally">>
    ELSE <<"abort">>

\* main(), src/index.ts missing: print the error and return
ExtractAbortNoIndex ==
    /\ ExtractCanStart
    /\ ~indexExists
    /\ x_run' = x_run + 1
    /\ x_history' = x_history \o LastOutcome
    /\ fs0' = fs
    /\ printed' = <<Report("no_index", <<>>)>>
    /\ tools' = <<>> /\ pending' = <<>> /\ generated_count' = 0
    /\ x_pc' = "exited"
    /\ exitStatus' = 0
    /\ UNCHANGED <<indexExists, registry, unwritable, fs>>
    /\ UNCHANGED <<injectVars, formatVars>>

\* main() up to the loops: parse, group by category, generated_count = 0
ExtractBegin ==
    /\ ExtractCanStart
    /\ indexExists
    /\ x_run' = x_run + 1
    /\ x_history' = x_history \o LastOutcome
    /\ fs0' = fs
    /\ tools' = parse_index_ts(registry)
    /\ pending' = ProcessingOrder(tools')
    /\ printed' = <<Report("found", <<>>)>>
    /\ generated_count' = 0
    /\ x_pc' = "loop"
    /\ UNCHANGED <<indexExists, registry, unwritable, fs, exitStatus>>
    /\ UNCHANGED <<injectVars, formatVars>>

\* loop body: the file already exists -> "already exists", continue
ExtractSkipExisting ==
    /\ x_pc = "loop" /\ pending # <<>>
    /\ LET tool_name == Head(pending)[1] IN
        /\ PathExists(fs, MdPath(tool_name))
        /\ printed' = Append(printed, Report("skipped", tool_name))
    /\ pending' = Tail(pending)
    /\ UNCHANGED <<indexExists, registry, unwritable, fs, fs0, x_pc, x_run,
                   x_history, tools, generated_count, exitStatus>>
    /\ UNCHANGED <<injectVars, formatVars>>

\* loop body: format, makedirs, write, count
ExtractWrite ==
    /\ x_pc = "loop" /\ pending # <<>>
    /\ LET tool_name == Head(pending)[1]
           description == Head(pending)[2]
       IN
        /\ ~PathExists(fs, MdPath(tool_name))
        /\ get_tool_category(tool_name) \notin unwritable
        /\ fs' = WriteFile(fs, MdPath(tool_name), format_markdown(tool_name, description))
        /\ printed' = Append(printed, Report("generated", tool_name))
    /\ generated_count' = generated_count + 1
    /\ pending' = Tail(pending)
    /\ UNCHANGED <<indexExists, registry, unwritable, fs0, x_pc, x_run,
                   x_history, tools, exitStatus>>
    /\ UNCHANGED <<injectVars, formatVars>>

\* loop body: os.makedirs / open(md_path, 'w') raises; nothing catches it
ExtractWriteRaises ==
    /\ x_pc = "loop" /\ pending # <<>>
    /\ LET tool_name == Head(pending)[1] IN
        /\ ~PathExists(fs, MdPath(tool_name))
        /\ get_tool_category(tool_name) \in unwritable
    /\ x_pc' = "crashed"
    /\ exitStatus' = 1
    /\ UNCHANGED <<indexExists, registry, unwritable, fs, fs0, x_run, x_history,
                   tools, pending, generated_count, printed>>
    /\ UNCHANGED <<injectVars, formatVars>>

\* after the loops: the summary lines; main() returns
ExtractTally ==
    /\ x_pc = "loop" /\ pending = <<>>
    /\ printed' = Append(printed, Report("tally", <<>>))
    /\ x_pc' = "exited"
    /\ exitStatus' = 0
    /\ UNCHANGED <<indexExists, registry, unwritable, fs, fs0, x_run, x_history,
                   tools, pending, generated_count>>
    /\ UNCHANGED <<injectVars, formatVars>>

NextExtract ==
    \/ ExtractAbortNoIndex
    \/ ExtractBegin
    \/ ExtractSkipExisting
    \/ ExtractWrite
    \/ ExtractWriteRaises
    \/ ExtractTally

SpecExtract == InitExtract /\ [][NextExtract]_vars

\* ------------------------------------------------- claims on the extractor

ToolOfReport(r) == CHOOSE t \in ToolIds : Join(t, "-") = r.tool

\* C1: the extractor never overwrites a sidecar document.  In every step of a
\* run, every file that exists (from before the run or written earlier in
\* it) keeps its contents, and a tool whose path already holds a file is
\* reported as skipped, writes nothing and is not counted as generated.
C1_NeverOverwrites ==
    [][ /\ \A p \in DOMAIN fs : p \in DOMAIN fs' /\ fs'[p] = fs[p]
        /\ (x_pc = "loop" /\ pending # <<>> /\ MdPath(Head(pending)[1]) \in DOMAIN fs)
            => /\ printed' = Append(printed, Report("skipped", Head(pending)[1]))
               /\ generated_count' = generated_count
               /\ fs' = fs
      ]_vars

\* C1 witness: a finished run that skipped one tool whose file predates the
\* run and one whose file was written earlier in the same run, the
\* hand-written file still holding its contents.
C1_Witness ==
    /\ x_pc = "exited"
    /\ \E i, j \in DOMAIN printed :
        /\ printed[i].kind = "skipped"
        /\ MdPath(ToolOfReport(printed[i])) \in DOMAIN fs0
        /\ fs[MdPath(ToolOfReport(printed[i]))] = ManualDoc
        /\ printed[j].kind = "skipped"
        /\ MdPath(ToolOfReport(printed[j])) \notin DOMAIN fs0

\* every tool of the registry has its path on disk
AllPathsPresent == \A i \in DOMAIN registry : MdPath(registry[i].name) \in DOMAIN fs

\* C2: extractor idempotence.  During and after a run that follows a run
\* which reached its tally, no file is written or changed (the sidecars are
\* those the earlier run left), nothing is counted as generated and every
\* tool visited is reported as skipped.
C2_ExtractorIdempotent ==
    (x_run >= 2 /\ x_history[x_run - 1] = "tally") =>
        /\ fs = fs0
        /\ AllPathsPresent
        /\ generated_count = 0
        /\ \A i \in DOMAIN printed : printed[i].kind \in {"found", "skipped", "tally"}

\* C2 witness: a second run has finished after a first run that wrote files,
\* having skipped every tool of a non-empty registry.
C2_Witness ==
    /\ x_run = 2 /\ x_history = <<"tally">> /\ x_pc = "exited"
    /\ Len(registry) >= 2
    /\ \E p \in DOMAIN fs : fs[p] # ManualDoc
    /\ Len(printed) = Len(registry) + 2

\* C6: with src/index.ts missing the run ends at once with a nonzero exit
\* status, having parsed nothing and left the sidecar files as they were.
C6_FatalPreconditionNonzero ==
    (x_pc = "exited" /\ ~indexExists) =>
        /\ exitStatus # 0
        /\ tools = <<>>
        /\ fs = fs0

NamesDistinct ==
    \A i, j \in DOMAIN registry : i # j => registry[i].name # registry[j].name

\* C7: one sidecar per tool.  After a run over a registry of pairwise distinct
\* identifiers on a filesystem without sidecars, as many files were written
\* as there are registrations and each tool's path holds the document headed
\* by that tool's identifier.
C7_OneSidecarPerTool ==
    (/\ x_pc = "exited" /\ x_run = 1 /\ indexExists
     /\ fs0 = <<>> /\ NamesDistinct) =>
        /\ generated_count = Len(registry)
        /\ Cardinality(DOMAIN fs) = Len(registry)
        /\ \A i \in DOMAIN registry :
            /\ MdPath(registry[i].name) \in DOMAIN fs
            /\ fs[MdPath(registry[i].name)].title = Join(registry[i].name, "-")

\* ====================================================== format_markdown ==

\* shapes of description lines: <<leading whitespace, start of the stripped
\* line, keyword contained>>
SummaryShapes ==
    {<<FALSE, "text", "">>, <<FALSE, "empty", "">>,
     <<FALSE, "h2", "Advantages">>, <<FALSE, "dash", "">>}

AdvShapes ==
    {<<FALSE, "text", "">>, <<TRUE, "empty", "">>,
     <<FALSE, "h2", "Advantages">>, <<FALSE, "dash", "">>,
     <<TRUE, "bullet", "">>, <<FALSE, "dash", "Features">>,
     <<FALSE, "h3", "">>}

\* the description whose i-th line has the i-th shape
LinesOf(shapes) ==
    [i \in DOMAIN shapes |->
        [ind |-> shapes[i][1], start |-> shapes[i][2], kw |-> shapes[i][3], n |-> i]]

Descriptions ==
    {LinesOf(sh) : sh \in SeqsUpTo(SummaryShapes, MaxSummaryLen)}
        \cup {LinesOf(sh) : sh \in SeqsUpTo(AdvShapes, MaxAdvLen)}

FormatNames == {<<"simctl", "boot", "device">>, <<"doctor">>}

InitFormat ==
    /\ f_pc = "call"
    /\ f_name \in FormatNames
    /\ f_description \in Descriptions
    /\ f_md = ManualDoc
    /\ ExtractIdle /\ InjectIdle

\* markdown = format_markdown(tool_name, description)
FormatCall ==
    /\ f_pc = "call"
    /\ f_md' = format_markdown(f_name, f_description)
    /\ f_pc' = "returned"
    /\ UNCHANGED <<f_name, f_description>>
    /\ UNCHANGED <<extractVars, injectVars>>

NextFormat == FormatCall

SpecFormat == InitFormat /\ [][NextFormat]_vars

\* ------------------------------------------- claims on format_markdown

\* the summary lines of a description: those the advantages scan leaves over
SummaryStream == SplitDescription(f_description).summary_lines

NonBlankAmongFirst(S, k) == {i \in 1..Min(k, Len(S)) : S[i].start # "empty"}

\* C9: a description holding the heading "## Advantages" directly followed by
\* exactly 3 bullet lines (whatever their text), and no other bullet, heading
\* or keyword line, is formatted with exactly those 3 bullets, in order,
\* under "## Advantages".
C9_AdvantagesRoundTrip ==
    f_pc = "returned" =>
        \A i \in DOMAIN f_description :
            (/\ f_description[i].start = "h2" /\ f_description[i].kw = "Advantages"
             /\ i + 3 = Len(f_description)
             /\ \A k \in 1..3 : f_description[i + k].start \in {"bullet", "dash"}
             /\ \A k \in 1..(i - 1) :
                    /\ f_description[k].start \in {"text", "empty"}
                    /\ f_description[k].kw = "")
            => f_md.advantages =
                   [k \in 1..3 |-> [f_description[i + k] EXCEPT !.ind = FALSE]]

\* C10 as stated: the summary written is the first 5 non-blank summary lines.
C10_FirstFiveNonBlank ==
    f_pc = "returned" =>
        LET kept == SelectSeq(SummaryStream, LAMBDA l : l.start # "empty")
        IN  f_md.summary = SubSeq(kept, 1, Min(5, Len(kept)))

\* C10 (amended): the summary written is the non-blank lines among the first 5
\* summary lines, in order, and no other line; a blank line among the first
\* 5 uses up one of the 5 places.  Without keyword lines the summary lines
\* are the description's lines.
C10_NonBlankOfFirstFive ==
    f_pc = "returned" =>
        LET S == SummaryStream
            out == f_md.summary
        IN  /\ \A k \in DOMAIN out : \E i \in NonBlankAmongFirst(S, 5) : out[k] = S[i]
            /\ \A i \in NonBlankAmongFirst(S, 5) : \E k \in DOMAIN out : out[k] = S[i]
            /\ \A k, l \in DOMAIN out : k < l => out[k].n < out[l].n
            /\ (\A i \in DOMAIN f_description : f_description[i].kw = "")
                    => S = f_description

\* C10 witness: at least 6 summary lines, a blank one among the first 5 and a
\* non-blank one after them, and fewer than 5 lines written.
C10_Witness ==
    /\ f_pc = "returned"
    /\ Len(SummaryStream) >= 6
    /\ \E i \in 1..5 : SummaryStream[i].start = "empty"
    /\ \E i \in 6..Len(SummaryStream) : SummaryStream[i].start # "empty"
    /\ Len(f_md.summary) \in 1..4

\* ============================================================= injector ==

\* A .ts file is a sequence of chunks:
\*   "decl"    an exported function declaration, "export async function f(args: any) {"
\*   "marker"  a hand-written documentation comment, "/** ... */"
\*   "block"   a rendered JSDOC_TEMPLATE (it starts with "/**")
\*   "pad"     500 characters of code holding neither "/**" nor a declaration
\*   "text"    a few characters of such code
\*   "nl"      a line break
Width(chunk) ==
    CASE chunk = "decl" -> 36
      [] chunk = "marker" -> 12
      [] chunk = "block" -> 410
      [] chunk = "pad" -> 500
      [] chunk = "text" -> 20
      [] chunk = "nl" -> 1

RECURSIVE Offset(_, _)
\* the character offset at which chunk i starts
Offset(content, i) ==
    IF i = 1 THEN 0 ELSE Offset(content, i - 1) + Width(content[i - 1])

\* '/**' in content[:500]
MarkerInPrefix(content) ==
    \E i \in DOMAIN content :
        /\ content[i] \in {"marker", "block"}
        /\ Offset(content, i) + 3 <= PrefixLen

\* re.search(pattern, content): match.start() of the first declaration, -1 for None
find_function_export(content, tool_name) ==
    LET hits == {i \in DOMAIN content : content[i] = "decl"} IN
    IF hits = {} THEN -1
    ELSE Offset(content, CHOOSE i \in hits : \A k \in hits : i <= k)

\* content[:start_pos] + jsdoc + '\n' + content[start_pos:]
Splice(content, start_pos) ==
    LET i == CHOOSE k \in DOMAIN content : Offset(content, k) = start_pos IN
    SubSeq(content, 1, i - 1) \o <<"block", "nl">> \o SubSeq(content, i, Len(content))

\* variant: the call passes both parameters of find_function_export
FindExportCallTwoArgs(content) ==
    [exc |-> "", start_pos |-> find_function_export(content, "tool")]

\* line 131, find_function_export(content): one argument for the two
\* parameters (content, tool_name), so the call raises TypeError
FindExportCall(content) == [exc |-> "TypeError", start_pos |-> -1]

\* load_md_content: {} on FileNotFoundError, any other error of open()
\* propagates, otherwise the dict of extracted fields (not empty)
load_md_content(md_path) ==
    IF md_path \notin mdFiles THEN [exc |-> "", info |-> "empty"]
    ELSE IF md_path \in mdDenied THEN [exc |-> "PermissionError", info |-> "empty"]
    ELSE [exc |-> "", info |-> "fields"]

Outcome(exc, ret, content, msg) ==
    [exc |-> exc, ret |-> ret, content |-> content, msg |-> msg]

\* add_jsdoc_to_file on a file with this content and permission
add_jsdoc_to_file(content, filePerm, md_path) ==
    IF filePerm = "unreadable" THEN Outcome("", FALSE, content, "could_not_read")
    ELSE IF MarkerInPrefix(content) THEN Outcome("", FALSE, content, "jsdoc_exists")
    ELSE LET md_info == load_md_content(md_path) IN
        IF md_info.exc # "" THEN Outcome(md_info.exc, FALSE, content, "raised")
        ELSE IF md_info.info = "empty" THEN Outcome("", FALSE, content, "no_markdown")
        ELSE LET found == FindExportCall(content) IN
            IF found.exc # "" THEN Outcome(found.exc, FALSE, content, "raised")
            ELSE IF found.start_pos = -1
                THEN Outcome("", FALSE, content, "no_export")
            ELSE IF filePerm = "readonly"
                THEN Outcome("", FALSE, content, "could_not_write")
            ELSE Outcome("", TRUE, Splice(content, found.start_pos), "updated")

\* the .ts files of src/tools, in the order main() visits them: categories in
\* the order of the list, names sorted within a category
Candidates ==
    <<[cat |-> "xcodebuild", stem |-> "xcodebuild-test"],
      [cat |-> "idb", stem |-> "tap"],
      [cat |-> "cache", stem |-> "cache-management"],
      [cat |-> "persistence", stem |-> "index"]>>

Tree == 1..Min(MaxFiles, Len(Candidates))

\* ts_file.name in ['cache-management.ts', 'persistence-tools.ts', 'index.ts']
IsMultiExport(f) ==
    Candidates[f].stem \in {"cache-management", "persistence-tools", "index"}

OwnMd(f) == [cat |-> Candidates[f].cat, name |-> Candidates[f].stem]

\* md_file = ts_file.with_suffix('.md'), or the alternative name when missing
ResolveMd(f) ==
    IF OwnMd(f) \notin mdFiles
        THEN IF Candidates[f].stem = "xcodebuild-test"
                THEN [cat |-> Candidates[f].cat, name |-> "test"]
                ELSE OwnMd(f)
        ELSE OwnMd(f)

Contents == {<<"decl">>, <<"marker", "decl">>, <<"pad", "decl">>, <<"text">>}

\* the sidecars a file may come with: none, its own, its own but unreadable,
\* and for xcodebuild-test.ts the alternative test.md
MdOptions(f) ==
    IF IsMultiExport(f) THEN {[have |-> {}, denied |-> {}]}
    ELSE {[have |-> {}, denied |-> {}],
          [have |-> {OwnMd(f)}, denied |-> {}],
          [have |-> {OwnMd(f)}, denied |-> {OwnMd(f)}]}
         \cup (IF Candidates[f].stem = "xcodebuild-test"
                THEN {[have |-> {[cat |-> Candidates[f].cat, name |-> "test"]},
                       denied |-> {}]}
                ELSE {})

InitInject ==
    /\ srcFiles \in [Tree -> Contents]
    /\ \A f \in Tree : IsMultiExport(f) => srcFiles[f] = <<"decl">>
    /\ src0 = srcFiles
    /\ perm \in [Tree -> {"ok", "unreadable", "readonly"}]
    /\ \A f \in Tree : IsMultiExport(f) => perm[f] = "ok"
    /\ \E opt \in [Tree -> UNION {MdOptions(f) : f \in Tree}] :
        /\ \A f \in Tree : opt[f] \in MdOptions(f)
        /\ mdFiles = UNION {opt[f].have : f \in Tree}
        /\ mdDenied = UNION {opt[f].denied : f \in Tree}
    /\ j_pc = "idle" /\ j_run = 0 /\ j_pending = <<>>
    /\ total_count = 0 /\ success_count = 0 /\ j_log = <<>> /\ j_exit = -1
    /\ ExtractIdle /\ FormatIdle

Entry(f, ret, msg) == [file |-> f, ret |-> ret, msg |-> msg]

\* main() up to the loops; it is started (again) once no run is in progress
InjectBegin ==
    /\ j_pc \in {"idle", "exited", "crashed"} /\ j_run < MaxRuns
    /\ j_run' = j_run + 1
    /\ src0' = srcFiles
    /\ j_pending' = [i \in Tree |-> i]
    /\ total_count' = 0 /\ success_count' = 0
    /\ j_log' = <<>>
    /\ j_pc' = "loop"
    /\ UNCHANGED <<srcFiles, perm, mdFiles, mdDenied, j_exit>>
    /\ UNCHANGED <<extractVars, formatVars>>

\* loop body: a multi-export file is passed over (continue)
InjectSkipMultiExport ==
    /\ j_pc = "loop" /\ j_pending # <<>>
    /\ IsMultiExport(Head(j_pending))
    /\ j_log' = Append(j_log, Entry(Head(j_pending), "skipped", "multi_export"))
    /\ j_pending' = Tail(j_pending)
    /\ UNCHANGED <<srcFiles, src0, perm, mdFiles, mdDenied, j_pc, j_run,
                   total_count, success_count, j_exit>>
    /\ UNCHANGED <<extractVars, formatVars>>

\* loop body: total_count += 1; add_jsdoc_to_file returns; count a success
InjectFileReturns ==
    /\ j_pc = "loop" /\ j_pending # <<>>
    /\ ~IsMultiExport(Head(j_pending))
    /\ LET f == Head(j_pending)
           r == add_jsdoc_to_file(srcFiles[f], perm[f], ResolveMd(f))
       IN
        /\ r.exc = ""
        /\ srcFiles' = [srcFiles EXCEPT ![f] = r.content]
        /\ success_count' = IF r.ret THEN success_count + 1 ELSE success_count
        /\ j_log' = Append(j_log, Entry(f, IF r.ret THEN "True" ELSE "False", r.msg))
    /\ total_count' = total_count + 1
    /\ j_pending' = Tail(j_pending)
    /\ UNCHANGED <<src0, perm, mdFiles, mdDenied, j_pc, j_run, j_exit>>
    /\ UNCHANGED <<extractVars, formatVars>>

\* loop body: total_count += 1; add_jsdoc_to_file raises and nothing in main()
\* catches it: the run ends with a traceback
InjectFileRaises ==
    /\ j_pc = "loop" /\ j_pending # <<>>
    /\ ~IsMultiExport(Head(j_pending))
    /\ LET f == Head(j_pending)
           r == add_jsdoc_to_file(srcFiles[f], perm[f], ResolveMd(f))
       IN
        /\ r.exc # ""
        /\ j_log' = Append(j_log, Entry(f, "raised", r.exc))
    /\ total_count' = total_count + 1
    /\ j_pc' = "crashed"
    /\ j_exit' = 1
    /\ UNCHANGED <<srcFiles, src0, perm, mdFiles, mdDenied, j_run, j_pending,
                   success_count>>
    /\ UNCHANGED <<extractVars, formatVars>>

\* after the loops: "Updated n/m tool files"; main() returns
InjectTally ==
    /\ j_pc = "loop" /\ j_pending = <<>>
    /\ j_log' = Append(j_log, Entry(0, "tally", "tally"))
    /\ j_pc' = "exited"
    /\ j_exit' = 0
    /\ UNCHANGED <<srcFiles, src0, perm, mdFiles, mdDenied, j_run, j_pending,
                   total_count, success_count>>
    /\ UNCHANGED <<extractVars, formatVars>>

NextInject ==
    \/ InjectBegin
    \/ InjectSkipMultiExport
    \/ InjectFileReturns
    \/ InjectFileRaises
    \/ InjectTally

SpecInject == InitInject /\ [][NextInject]_vars

\* -------------------------------------------------- claims on the injector

HasDecl(content) == find_function_export(content, "tool") # -1

\* the sidecar main() resolved for the file exists and can be read
MdReadable(f) == ResolveMd(f) \in mdFiles \ mdDenied
MdMissing(f) == ResolveMd(f) \notin mdFiles

Blocks(content) == Cardinality({i \in DOMAIN content : content[i] = "block"})

\* the calls of add_jsdoc_to_file made so far in the current run
Calls == {i \in DOMAIN j_log : j_log[i].file \in Tree /\ j_log[i].msg # "multi_export"}

C4_InjectionSucceeds ==
    \A i \in Calls :
        LET f == j_log[i].file IN
        (/\ perm[f] = "ok"
         /\ ~MarkerInPrefix(src0[f])
         /\ MdReadable(f)
         /\ HasDecl(src0[f]))
        => /\ j_log[i].ret = "True"
           /\ srcFiles[f] = Splice(src0[f], find_function_export(src0[f], "tool"))
           /\ success_count >= 1

\* every item of the tree is one the claim lists: passed over, unreadable,
\* already documented, without sidecar, or without entry point
OnlyListedItems ==
    /\ mdDenied = {}
    /\ \A f \in Tree :
        \/ IsMultiExport(f)
        \/ perm[f] = "unreadable"
        \/ MarkerInPrefix(src0[f])
        \/ MdMissing(f)
        \/ ~HasDecl(src0[f])

\* C5: per-item isolation.  A run over items that are skipped or fail ends
\* with the tally, every file of the tree having been visited exactly once.
C5_BatchAlwaysCompletes ==
    (j_run >= 1 /\ j_pc # "loop" /\ OnlyListedItems) =>
        /\ j_pc = "exited"
        /\ j_log[Len(j_log)].msg = "tally"
        /\ \A f \in Tree : Cardinality({i \in DOMAIN j_log : j_log[i].file = f}) = 1

\* C8: every skip path leaves the file untouched.  A call of add_jsdoc_to_file
\* on a readable file that has "/**" in its first 500 characters, or whose
\* sidecar is not found, or that holds no exported declaration, returns False
\* without changing the file, and a file is changed only when none of the
\* three holds.
C8_SkipPathsReturnFalse ==
    \A i \in Calls :
        LET f == j_log[i].file
            skip == \/ MarkerInPrefix(src0[f])
                    \/ MdMissing(f)
                    \/ ~HasDecl(src0[f])
        IN  /\ (skip /\ perm[f] # "unreadable" /\ ResolveMd(f) \notin mdDenied)
                => /\ j_log[i].ret = "False"
                   /\ srcFiles[f] = src0[f]
            /\ srcFiles[f] # src0[f] => ~skip

====
